---- MODULE Spec2Model ----
(***************************************************************************)
(* A model of the Tekken tokenizer facade (src/src/tekkenizer.rs): the     *)
(* unified token-id space, construction, encode, and policy-driven decode. *)
(*                                                                         *)
(* Strings and byte vectors are sequences of byte values 0..255; a Rust    *)
(* String is such a sequence that is valid UTF-8.  Results are records     *)
(* [ok, val, err]; err names the TokenizerError variant, or "panic" when   *)
(* the call does not return.                                               *)
(***************************************************************************)
EXTENDS Integers, Sequences, FiniteSets, TLC

VARIABLES
    tk,     \* the Tekkenizer value (or the outcome of a failed construction)
    op,     \* the last call made on it, with its arguments
    ret     \* what that call returned

vars == <<tk, op, ret>>

----------------------------------------------------------------------------
(* Results                                                                 *)

Ok(v) == [ok |-> TRUE, val |-> v, err |-> "none"]

Err(e) == [ok |-> FALSE, val |-> <<>>, err |-> e]

\* an error whose message names x
ErrNaming(e, x) == [ok |-> FALSE, val |-> <<x>>, err |-> e]

----------------------------------------------------------------------------
(* Sequences                                                               *)

RECURSIVE Concat(_)
\* slice.join(""): the concatenation of a sequence of strings
Concat(parts) ==
    IF parts = <<>> THEN <<>> ELSE Head(parts) \o Concat(Tail(parts))

\* str::contains
Contains(hay, needle) ==
    \E i \in 0..(Len(hay) - Len(needle)) :
        SubSeq(hay, i + 1, i + Len(needle)) = needle

RECURSIVE SeqsUpTo(_, _)
\* all sequences over S of length at most n
SeqsUpTo(S, n) ==
    IF n = 0 THEN {<<>>}
    ELSE LET shorter == SeqsUpTo(S, n - 1)
         IN  shorter \cup {Append(s, x) : s \in shorter, x \in S}

----------------------------------------------------------------------------
(* UTF-8                                                                   *)

\* number of bytes announced by a lead byte, 0 when the byte cannot lead
Utf8Width(b) ==
    IF b < 128 THEN 1
    ELSE IF b >= 194 /\ b <= 223 THEN 2
    ELSE IF b >= 224 /\ b <= 239 THEN 3
    ELSE IF b >= 240 /\ b <= 244 THEN 4
    ELSE 0

\* the range allowed for the byte that follows lead byte b
Utf8SecondOk(b, c) ==
    IF b = 224 THEN c >= 160 /\ c <= 191
    ELSE IF b = 237 THEN c >= 128 /\ c <= 159
    ELSE IF b = 240 THEN c >= 144 /\ c <= 191
    ELSE IF b = 244 THEN c >= 128 /\ c <= 143
    ELSE c >= 128 /\ c <= 191

\* length of the longest well-formed prefix of the character starting at
\* bytes[i]: the full width when the character is complete and valid
Utf8Good(bytes, i) ==
    LET w == Utf8Width(bytes[i])
        okAt(k) == /\ i + k <= Len(bytes)
                   /\ IF k = 1 THEN Utf8SecondOk(bytes[i], bytes[i + 1])
                      ELSE bytes[i + k] >= 128 /\ bytes[i + k] <= 191
        run == {k \in 0..(w - 1) : \A j \in 1..k : okAt(j)}
    IN  IF w = 0 THEN 0
        ELSE 1 + (CHOOSE k \in run : \A m \in run : m <= k)

RECURSIVE Utf8ValidFrom(_, _)
Utf8ValidFrom(bytes, i) ==
    IF i > Len(bytes) THEN TRUE
    ELSE /\ Utf8Width(bytes[i]) > 0
         /\ Utf8Good(bytes, i) = Utf8Width(bytes[i])
         /\ Utf8ValidFrom(bytes, i + Utf8Width(bytes[i]))

\* String::from_utf8(bytes).is_ok()
IsUtf8(bytes) == Utf8ValidFrom(bytes, 1)

\* U+FFFD REPLACEMENT CHARACTER
Replacement == <<239, 191, 189>>

RECURSIVE Utf8LossyFrom(_, _)
Utf8LossyFrom(bytes, i) ==
    IF i > Len(bytes) THEN <<>>
    ELSE LET w == Utf8Width(bytes[i])
             g == Utf8Good(bytes, i)
         IN  IF w > 0 /\ g = w
             THEN SubSeq(bytes, i, i + w - 1) \o Utf8LossyFrom(bytes, i + w)
             ELSE Replacement \o Utf8LossyFrom(bytes, i + (IF g = 0 THEN 1 ELSE g))

\* String::from_utf8_lossy(bytes)
Utf8Lossy(bytes) == Utf8LossyFrom(bytes, 1)

----------------------------------------------------------------------------
(* Special tokens (src/src/special_tokens.rs)                              *)

\* SpecialTokens::as_str, as UTF-8 bytes
UnkStr == <<60, 117, 110, 107, 62>>                                 \* "<unk>"
BosStr == <<60, 115, 62>>                                           \* "<s>"
EosStr == <<60, 47, 115, 62>>                                       \* "</s>"
PadStr == <<60, 112, 97, 100, 62>>                                  \* "<pad>"
AudioStr == <<91, 65, 85, 68, 73, 79, 93>>                          \* "[AUDIO]"
BeginAudioStr == <<91, 66, 69, 71, 73, 78, 95, 65, 85, 68, 73, 79, 93>> \* "[BEGIN_AUDIO]"

Policies == {"Ignore", "Keep", "Raise"}

\* struct SpecialTokenInfo
SpecialTokenInfo(rank, token_str) ==
    [rank |-> rank, token_str |-> token_str, is_control |-> TRUE]

RECURSIVE Decimal(_)
\* Display of an unsigned integer
Decimal(i) ==
    IF i < 10 THEN <<48 + i>> ELSE Decimal(i \div 10) \o <<48 + (i % 10)>>

\* format!("<SPECIAL_{i}>")
PlaceholderStr(i) == <<60, 83, 80, 69, 67, 73, 65, 76, 95>> \o Decimal(i) \o <<62>>

----------------------------------------------------------------------------
(* Vocabulary (src/src/config.rs, reload_mergeable_ranks)                  *)

\* struct TokenInfo.  token_bytes stands for the Base64 text by what the
\* STANDARD engine decodes it to: b64ok is FALSE for text it rejects.
TokenInfo(rank, bytes) ==
    [rank |-> rank, token_bytes |-> [b64ok |-> TRUE, bytes |-> bytes]]

\* the first 256 ranks are the single bytes
ByteIdentityRanks == 256

\* usize subtraction a - b.  A debug build panics when b > a; a release
\* build wraps modulo 2^64: wrapped stands for the value 2^64 - value.
UsizeSub(a, b) ==
    IF a >= b THEN [wrapped |-> FALSE, value |-> a - b]
    ELSE [wrapped |-> TRUE, value |-> b - a]

\* vocab.len() > max_vocab (a wrapped max_vocab exceeds every length)
LenExceeds(n, max_vocab) == ~max_vocab.wrapped /\ n > max_vocab.value

\* reload_mergeable_ranks without the check of the byte tokens
reload_mergeable_ranks_NoByteCheck(vocab_in, max_vocab) ==
    LET vocab == IF LenExceeds(Len(vocab_in), max_vocab)
                 THEN SubSeq(vocab_in, 1, max_vocab.value)
                 ELSE vocab_in
        keys == {vocab[i].token_bytes.bytes : i \in 1..Len(vocab)}
        last(b) == CHOOSE i \in 1..Len(vocab) :
                      /\ vocab[i].token_bytes.bytes = b
                      /\ \A j \in (i + 1)..Len(vocab) : vocab[j].token_bytes.bytes # b
        ranks == [b \in keys |-> vocab[last(b)].rank]
    IN  IF 0..(Cardinality(keys) - 1) # {ranks[b] : b \in keys}
        THEN Err("InvalidConfig")
        ELSE Ok(ranks)

\* fn reload_mergeable_ranks: the byte-sequence -> rank table, or the error
reload_mergeable_ranks(vocab_in, max_vocab) ==
    LET vocab == IF LenExceeds(Len(vocab_in), max_vocab)
                 THEN SubSeq(vocab_in, 1, max_vocab.value)
                 ELSE vocab_in
        badB64(i) == ~vocab[i].token_bytes.b64ok
        badByte(i) == /\ vocab[i].rank < ByteIdentityRanks
                      /\ vocab[i].token_bytes.bytes # <<vocab[i].rank>>
        bad == {i \in 1..Len(vocab) : badB64(i) \/ badByte(i)}
        first == CHOOSE i \in bad : \A j \in bad : i <= j
        keys == {vocab[i].token_bytes.bytes : i \in 1..Len(vocab)}
        last(b) == CHOOSE i \in 1..Len(vocab) :
                      /\ vocab[i].token_bytes.bytes = b
                      /\ \A j \in (i + 1)..Len(vocab) : vocab[j].token_bytes.bytes # b
        ranks == [b \in keys |-> vocab[last(b)].rank]
        expected_ranks == 0..(Cardinality(keys) - 1)
        actual_ranks == {ranks[b] : b \in keys}
    IN  IF bad # {}
        THEN (IF badB64(first) THEN Err("Base64")
              ELSE ErrNaming("InvalidConfig", vocab[first].rank))
        ELSE IF expected_ranks # actual_ranks THEN Err("InvalidConfig")
        ELSE Ok(ranks)

----------------------------------------------------------------------------
(* The BPE engine (tiktoken_rs::CoreBPE), built in Tekkenizer::new from    *)
(* the mergeable ranks, an empty special-token map and the split pattern.  *)

RECURSIVE CharsFrom(_, _)
CharsFrom(text, i) ==
    IF i > Len(text) THEN <<>>
    ELSE <<SubSeq(text, i, i + Utf8Width(text[i]) - 1)>>
            \o CharsFrom(text, i + Utf8Width(text[i]))

\* the characters of a str, each as its UTF-8 bytes
Chars(text) == CharsFrom(text, 1)

\* The class of a character under the pattern's atoms, for U+0000..U+00FF:
\* "nl" [\r\n], "ws" other \s, "L" \p{L}, "N" \p{N}, "O" anything else.
CharClass(c) ==
    LET b == c[1]
        d == IF Len(c) > 1 THEN c[2] ELSE 0
    IN  IF Len(c) = 1
        THEN IF b = 10 \/ b = 13 THEN "nl"
             ELSE IF b = 9 \/ b = 11 \/ b = 12 \/ b = 32 THEN "ws"
             ELSE IF b >= 48 /\ b <= 57 THEN "N"
             ELSE IF (b >= 65 /\ b <= 90) \/ (b >= 97 /\ b <= 122) THEN "L"
             ELSE "O"
        ELSE IF b = 194
        THEN IF d = 133 \/ d = 160 THEN "ws"
             ELSE IF d = 170 \/ d = 181 \/ d = 186 THEN "L"
             ELSE IF d = 178 \/ d = 179 \/ d = 185 \/ (d >= 188 /\ d <= 190) THEN "N"
             ELSE "O"
        ELSE IF b = 195 THEN (IF d = 151 \/ d = 183 THEN "O" ELSE "L")
        ELSE "O"

\* length of the maximal run of characters from position i whose class is in K
RunLen(cl, i, K) ==
    LET stops == {j \in i..(Len(cl) + 1) : j = Len(cl) + 1 \/ cl[j] \notin K}
    IN  (CHOOSE j \in stops : \A k \in stops : j <= k) - i

\* lower-case of an ASCII letter given as a character
Lower(c) == IF Len(c) = 1 /\ c[1] >= 65 /\ c[1] <= 90 THEN c[1] + 32 ELSE c[1]

\* (?i:'s|'t|'re|'ve|'m|'ll|'d)
MatchContraction(cs, i) ==
    LET at(k) == IF i + k <= Len(cs) /\ Len(cs[i + k]) = 1 THEN Lower(cs[i + k]) ELSE 0
    IN  IF cs[i] # <<39>> THEN 0
        ELSE IF at(1) = 115 \/ at(1) = 116 THEN 2
        ELSE IF at(1) = 114 /\ at(2) = 101 THEN 3
        ELSE IF at(1) = 118 /\ at(2) = 101 THEN 3
        ELSE IF at(1) = 109 THEN 2
        ELSE IF at(1) = 108 /\ at(2) = 108 THEN 3
        ELSE IF at(1) = 100 THEN 2
        ELSE 0

\* [^\r\n\p{L}\p{N}]?\p{L}+
MatchWord(cl, i) ==
    IF cl[i] \in {"ws", "O"} /\ i < Len(cl) /\ cl[i + 1] = "L"
    THEN 1 + RunLen(cl, i + 1, {"L"})
    ELSE RunLen(cl, i, {"L"})

\* \p{N}{1,3}
MatchNumber(cl, i) ==
    LET n == RunLen(cl, i, {"N"}) IN IF n > 3 THEN 3 ELSE n

\*  ?[^\s\p{L}\p{N}]+[\r\n]*
MatchPunct(cs, cl, i) ==
    LET j == IF cs[i] = <<32>> /\ i < Len(cl) /\ cl[i + 1] = "O" THEN i + 1 ELSE i
        n == RunLen(cl, j, {"O"})
    IN  IF n = 0 THEN 0
        ELSE (j - i) + n + RunLen(cl, j + n, {"nl"})

\* \s*[\r\n]+
MatchNewlines(cl, i) ==
    LET w == RunLen(cl, i, {"ws", "nl"})
        nls == {j \in i..(i + w - 1) : cl[j] = "nl"}
    IN  IF nls = {} THEN 0
        ELSE (CHOOSE j \in nls : \A k \in nls : k <= j) - i + 1

\* \s+(?!\S)
MatchSpaceBeforeSpace(cl, i) ==
    LET w == RunLen(cl, i, {"ws", "nl"})
    IN  IF w = 0 THEN 0
        ELSE IF i + w > Len(cl) THEN w
        ELSE w - 1

\* \s+
MatchSpace(cl, i) == RunLen(cl, i, {"ws", "nl"})

\* the first alternative of the pattern that matches at character i
MatchLen(cs, cl, i) ==
    IF MatchContraction(cs, i) > 0 THEN MatchContraction(cs, i)
    ELSE IF MatchWord(cl, i) > 0 THEN MatchWord(cl, i)
    ELSE IF MatchNumber(cl, i) > 0 THEN MatchNumber(cl, i)
    ELSE IF MatchPunct(cs, cl, i) > 0 THEN MatchPunct(cs, cl, i)
    ELSE IF MatchNewlines(cl, i) > 0 THEN MatchNewlines(cl, i)
    ELSE IF MatchSpaceBeforeSpace(cl, i) > 0 THEN MatchSpaceBeforeSpace(cl, i)
    ELSE MatchSpace(cl, i)

RECURSIVE SplitFrom(_, _, _)
SplitFrom(cs, cl, i) ==
    IF i > Len(cs) THEN <<>>
    ELSE LET n == MatchLen(cs, cl, i)
         IN  IF n = 0 THEN SplitFrom(cs, cl, i + 1)
             ELSE <<Concat(SubSeq(cs, i, i + n - 1))>> \o SplitFrom(cs, cl, i + n)

\* the pieces the pattern cuts a text into (regex find_iter)
PatternSplit(text) ==
    LET cs == Chars(text)
        cl == [i \in DOMAIN cs |-> CharClass(cs[i])]
    IN  SplitFrom(cs, cl, 1)

RECURSIVE byte_pair_merge(_, _)
\* merge, lowest rank first and leftmost among equals, until no adjacent
\* pair of parts is in the table
byte_pair_merge(ranks, parts) ==
    LET pairs == {i \in 1..(Len(parts) - 1) : (parts[i] \o parts[i + 1]) \in DOMAIN ranks}
        rk(i) == ranks[parts[i] \o parts[i + 1]]
        best == CHOOSE i \in pairs : \A j \in pairs : rk(i) < rk(j) \/ (rk(i) = rk(j) /\ i <= j)
    IN  IF pairs = {} THEN parts
        ELSE byte_pair_merge(ranks,
                 SubSeq(parts, 1, best - 1) \o <<parts[best] \o parts[best + 1]>>
                    \o SubSeq(parts, best + 2, Len(parts)))

\* the ranks of one piece: indexing the table with a part it lacks panics
byte_pair_encode(ranks, piece) ==
    LET parts == byte_pair_merge(ranks, [i \in DOMAIN piece |-> <<piece[i]>>])
    IN  IF piece \in DOMAIN ranks THEN Ok(<<ranks[piece]>>)
        ELSE IF \E i \in DOMAIN parts : parts[i] \notin DOMAIN ranks THEN Err("panic")
        ELSE Ok([i \in DOMAIN parts |-> ranks[parts[i]]])

RECURSIVE EncodePieces(_, _)
EncodePieces(ranks, pieces) ==
    IF pieces = <<>> THEN Ok(<<>>)
    ELSE LET h == byte_pair_encode(ranks, Head(pieces))
             t == EncodePieces(ranks, Tail(pieces))
         IN  IF ~h.ok THEN h
             ELSE IF ~t.ok THEN t
             ELSE Ok(h.val \o t.val)

\* the map rank -> bytes collected from a table bytes -> rank
InverseRanks(ranks) ==
    LET pairs == {<<ranks[b], b>> : b \in DOMAIN ranks}
    IN  [r \in {p[1] : p \in pairs} |-> (CHOOSE p \in pairs : p[1] = r)[2]]

\* CoreBPE::new(mergeable_ranks, no special tokens, pattern): the encoder
\* and its inverse, the decoder
CoreBPE_new(encoder) == [encoder |-> encoder, decoder |-> InverseRanks(encoder)]

\* CoreBPE::encode(text, &HashSet::new()): no special token is allowed, so
\* the text is encoded as ordinary text throughout
CoreBPE_encode(bpe, text) == EncodePieces(bpe.encoder, PatternSplit(text))

\* CoreBPE::decode(tokens): the bytes of every rank, then String::from_utf8
CoreBPE_decode(bpe, tokens) ==
    LET all == Concat([i \in DOMAIN tokens |-> bpe.decoder[tokens[i]]])
    IN  IF \E i \in DOMAIN tokens : tokens[i] \notin DOMAIN bpe.decoder
        THEN Err("DecodeKeyError")
        ELSE IF ~IsUtf8(all) THEN Err("FromUtf8Error")
        ELSE Ok(all)

----------------------------------------------------------------------------
(* Construction (Tekkenizer::new)                                          *)

\* AudioEncoder::new with the two ids exchanged
AudioEncoderNew_Swapped(config, audio_token_id, begin_audio_token_id) ==
    [config |-> config,
     audio_token_id |-> begin_audio_token_id,
     begin_audio_token_id |-> audio_token_id]

\* AudioEncoder::new
AudioEncoderNew(config, audio_token_id, begin_audio_token_id) ==
    [config |-> config,
     audio_token_id |-> audio_token_id,
     begin_audio_token_id |-> begin_audio_token_id]

\* the placeholders pushed for i in special_tokens.len()..num_special_tokens
FillSpecialTokens(special_tokens, num_special_tokens) ==
    special_tokens \o
        [k \in 1..(num_special_tokens - Len(special_tokens)) |->
            SpecialTokenInfo(Len(special_tokens) + k - 1,
                             PlaceholderStr(Len(special_tokens) + k - 1))]

\* all_special_tokens.iter().map(|t| (t.token_str, t.rank)).collect():
\* a later entry with the same text replaces an earlier one
SpecialTokensMap(all_special_tokens) ==
    LET strs == {all_special_tokens[i].token_str : i \in DOMAIN all_special_tokens}
        last(s) == CHOOSE i \in DOMAIN all_special_tokens :
                      /\ all_special_tokens[i].token_str = s
                      /\ \A j \in DOMAIN all_special_tokens :
                            j > i => all_special_tokens[j].token_str # s
    IN  [s \in strs |-> all_special_tokens[last(s)].rank]

\* the vocabulary strings: the special-token texts, then the lossy text of
\* every rank's bytes, "<?>" for a rank the reverse lookup lacks
VocabStrings(all_special_tokens, rank_to_bytes, vocab_size, num_special_tokens) ==
    [k \in 1..vocab_size |->
        IF k - 1 < num_special_tokens
        THEN all_special_tokens[k].token_str
        ELSE LET token_id == k - 1 - num_special_tokens
             IN  IF token_id \in DOMAIN rank_to_bytes
                 THEN Utf8Lossy(rank_to_bytes[token_id])
                 ELSE <<60, 63, 62>>]

\* Tekkenizer::new.  build is the profile the crate was compiled under;
\* an Option is <<>> for None and <<x>> for Some(x).
TekkenizerNew(vocab, special_tokens, vocab_size, num_special_tokens, version, audio_config, build) ==
    LET dup == \E i, j \in DOMAIN special_tokens :
                  i < j /\ special_tokens[i].token_str = special_tokens[j].token_str
        all_special_tokens == FillSpecialTokens(special_tokens, num_special_tokens)
        inner_vocab_size == UsizeSub(vocab_size, num_special_tokens)
        mergeable_ranks == reload_mergeable_ranks(vocab, inner_vocab_size)
        tekkenizer == CoreBPE_new(mergeable_ranks.val)
        special_tokens_map == SpecialTokensMap(all_special_tokens)
        rank_to_bytes == InverseRanks(mergeable_ranks.val)
        audio_encoder ==
            IF audio_config = <<>> THEN <<>>
            ELSE <<AudioEncoderNew(audio_config[1], special_tokens_map[AudioStr],
                                   special_tokens_map[BeginAudioStr])>>
    IN  IF vocab_size > Len(vocab) + num_special_tokens THEN Err("InvalidConfig")
        ELSE IF dup THEN Err("InvalidConfig")
        ELSE IF Len(special_tokens) > num_special_tokens THEN Err("InvalidConfig")
        ELSE IF inner_vocab_size.wrapped /\ build = "debug" THEN Err("panic")
        ELSE IF ~mergeable_ranks.ok THEN mergeable_ranks
        ELSE IF audio_config # <<>> /\ AudioStr \notin DOMAIN special_tokens_map
             THEN Err("TokenNotFound")
        ELSE IF audio_config # <<>> /\ BeginAudioStr \notin DOMAIN special_tokens_map
             THEN Err("TokenNotFound")
        ELSE Ok([tekkenizer |-> tekkenizer,
                 vocab_size |-> vocab_size,
                 num_special_tokens |-> num_special_tokens,
                 version |-> version,
                 special_tokens |-> all_special_tokens,
                 special_tokens_map |-> special_tokens_map,
                 vocab |-> VocabStrings(all_special_tokens, rank_to_bytes,
                                        vocab_size, num_special_tokens),
                 audio_config |-> audio_config,
                 audio_encoder |-> audio_encoder])

----------------------------------------------------------------------------
(* Operations of a constructed Tekkenizer t                                *)

\* the text of the TokenNotFound error of get_control_token: it quotes the
\* requested string and lists the keys of special_tokens_map
UnknownControlToken(token_str, available_tokens) ==
    [requested |-> token_str, available |-> available_tokens]

\* get_control_token whose error text leaves the requested string out
get_control_token_Anonymous(t, token_str) ==
    IF token_str \in DOMAIN t.special_tokens_map
    THEN Ok(t.special_tokens_map[token_str])
    ELSE ErrNaming("TokenNotFound",
                   UnknownControlToken(<<>>, DOMAIN t.special_tokens_map))

\* Tekkenizer::get_control_token
get_control_token(t, token_str) ==
    IF token_str \in DOMAIN t.special_tokens_map
    THEN Ok(t.special_tokens_map[token_str])
    ELSE ErrNaming("TokenNotFound",
                   UnknownControlToken(token_str, DOMAIN t.special_tokens_map))

\* Tekkenizer::bos_id
bos_id(t) == get_control_token(t, BosStr)

\* Tekkenizer::eos_id
eos_id(t) == get_control_token(t, EosStr)

\* Tekkenizer::pad_id
pad_id(t) == get_control_token(t, PadStr)

\* Tekkenizer::unk_id
unk_id(t) == get_control_token(t, UnkStr)

\* Tekkenizer::is_special_token
is_special_token(t, token_id) == token_id < t.num_special_tokens

\* the shift of every rank into the unified id space
ShiftUp(t, tokens) == [i \in DOMAIN tokens |-> tokens[i] + t.num_special_tokens]

\* encode with the BOS id pushed at the end instead of inserted at index 0
encode_BosAppended(t, text, add_beginning_of_sequence, add_end_of_sequence) ==
    LET tokens == CoreBPE_encode(t.tekkenizer, text)
        bos == get_control_token(t, BosStr)
        eos == get_control_token(t, EosStr)
    IN  IF ~tokens.ok THEN tokens
        ELSE IF add_beginning_of_sequence /\ ~bos.ok THEN bos
        ELSE IF add_end_of_sequence /\ ~eos.ok THEN eos
        ELSE Ok(ShiftUp(t, tokens.val)
                \o (IF add_beginning_of_sequence THEN <<bos.val>> ELSE <<>>)
                \o (IF add_end_of_sequence THEN <<eos.val>> ELSE <<>>))

\* Tekkenizer::encode
encode(t, text, add_beginning_of_sequence, add_end_of_sequence) ==
    LET raw == CoreBPE_encode(t.tekkenizer, text)
        tokens == ShiftUp(t, raw.val)
        with_bos == IF add_beginning_of_sequence
                    THEN <<bos_id(t).val>> \o tokens ELSE tokens
        with_eos == IF add_end_of_sequence
                    THEN Append(with_bos, eos_id(t).val) ELSE with_bos
    IN  IF ~raw.ok THEN raw
        ELSE IF add_beginning_of_sequence /\ ~bos_id(t).ok THEN bos_id(t)
        ELSE IF add_end_of_sequence /\ ~eos_id(t).ok THEN eos_id(t)
        ELSE Ok(with_eos)

\* the shift of a non-special group back down to ranks
ShiftDown(t, group) == [i \in DOMAIN group |-> group[i] - t.num_special_tokens]

\* the texts of a special group joined into a single segment
KeepSegments_Joined(t, group) ==
    <<Concat([i \in DOMAIN group |-> t.special_tokens[group[i] + 1].token_str])>>

\* the segments pushed for a special group under Keep
KeepSegments(t, group) ==
    [i \in DOMAIN group |-> t.special_tokens[group[i] + 1].token_str]

\* decode_group with a special group under Raise dropped as under Ignore
decode_group_RaiseDropped(t, group, is_special, decoded, special_token_policy) ==
    IF is_special
    THEN IF special_token_policy = "Keep"
         THEN Ok(decoded \o KeepSegments(t, group))
         ELSE Ok(decoded)
    ELSE LET decoded_text == CoreBPE_decode(t.tekkenizer, ShiftDown(t, group))
         IN  IF ~decoded_text.ok THEN Err("Tokenizers")
             ELSE Ok(Append(decoded, decoded_text.val))

\* Tekkenizer::decode_group: the segments after the group, or the error
decode_group(t, group, is_special, decoded, special_token_policy) ==
    IF is_special
    THEN IF special_token_policy = "Raise" THEN Err("SpecialTokenPolicy")
         ELSE IF special_token_policy = "Keep"
              THEN Ok(decoded \o KeepSegments(t, group))
         ELSE Ok(decoded)
    ELSE LET decoded_text == CoreBPE_decode(t.tekkenizer, ShiftDown(t, group))
         IN  IF ~decoded_text.ok THEN Err("Tokenizers")
             ELSE Ok(Append(decoded, decoded_text.val))

RECURSIVE DecodeLoop(_, _, _, _, _, _, _)
\* the loop of decode_all from token i on, then the last group.
\* current_is_special is an Option<bool>: <<>> for None, <<b>> for Some(b).
DecodeLoop(t, tokens, special_token_policy, i, decoded, current_group, current_is_special) ==
    IF i > Len(tokens)
    THEN IF current_is_special # <<>>
         THEN decode_group(t, current_group, current_is_special[1], decoded,
                           special_token_policy)
         ELSE Ok(decoded)
    ELSE LET token_id == tokens[i]
             is_special == token_id < t.num_special_tokens
             cur == IF current_is_special = <<>> THEN <<is_special>>
                    ELSE current_is_special
             done == decode_group(t, current_group, cur[1], decoded,
                                  special_token_policy)
         IN  IF cur = <<is_special>>
             THEN DecodeLoop(t, tokens, special_token_policy, i + 1, decoded,
                             Append(current_group, token_id), cur)
             ELSE IF ~done.ok THEN done
             ELSE DecodeLoop(t, tokens, special_token_policy, i + 1, done.val,
                             <<token_id>>, <<is_special>>)

\* decode_all without grouping: special ids are handled one by one and the
\* non-special ids are handed to the engine as a single batch
decode_all_Ungrouped(t, tokens, special_token_policy) ==
    LET special == SelectSeq(tokens, LAMBDA id : id < t.num_special_tokens)
        plain == SelectSeq(tokens, LAMBDA id : id >= t.num_special_tokens)
        decoded_text == CoreBPE_decode(t.tekkenizer, ShiftDown(t, plain))
    IN  IF special # <<>> /\ special_token_policy = "Raise"
        THEN Err("SpecialTokenPolicy")
        ELSE IF plain # <<>> /\ ~decoded_text.ok THEN Err("Tokenizers")
        ELSE Ok((IF special_token_policy = "Keep" THEN KeepSegments(t, special)
                 ELSE <<>>)
                \o (IF plain = <<>> THEN <<>> ELSE <<decoded_text.val>>))

\* Tekkenizer::decode_all
decode_all(t, tokens, special_token_policy) ==
    DecodeLoop(t, tokens, special_token_policy, 1, <<>>, <<>>, <<>>)

\* decode returning the first decoded part instead of joining them all
decode_FirstPart(t, tokens, special_token_policy) ==
    LET decoded_parts == decode_all(t, tokens, special_token_policy)
    IN  IF ~decoded_parts.ok THEN decoded_parts
        ELSE IF decoded_parts.val = <<>> THEN Ok(<<>>)
        ELSE Ok(decoded_parts.val[1])

\* Tekkenizer::decode
decode(t, tokens, special_token_policy) ==
    LET decoded_parts == decode_all(t, tokens, special_token_policy)
    IN  IF ~decoded_parts.ok THEN decoded_parts
        ELSE Ok(Concat(decoded_parts.val))

\* id_to_piece decoding under Ignore
id_to_piece_Ignore(t, token_id, build) ==
    IF token_id >= t.vocab_size
    THEN (IF t.vocab_size = 0 /\ build = "debug" THEN Err("panic")
          ELSE Err("InvalidConfig"))
    ELSE decode(t, <<token_id>>, "Ignore")

\* Tekkenizer::id_to_piece.  The message of the range error computes
\* vocab_size - 1, which overflows in a debug build when vocab_size is 0.
id_to_piece(t, token_id, build) ==
    IF token_id >= t.vocab_size
    THEN (IF t.vocab_size = 0 /\ build = "debug" THEN Err("panic")
          ELSE Err("InvalidConfig"))
    ELSE decode(t, <<token_id>>, "Keep")

\* id_to_byte_piece without the fallback to the display strings
id_to_byte_piece_NoFallback(t, token_id, special_token_policy, build) ==
    IF token_id >= t.vocab_size THEN Err("InvalidConfig")
    ELSE IF token_id < t.num_special_tokens
    THEN (IF special_token_policy = "Keep"
          THEN Ok(t.special_tokens[token_id + 1].token_str)
          ELSE IF special_token_policy = "Raise" THEN Err("SpecialTokenPolicy")
          ELSE Ok(<<>>))
    ELSE LET decoded == CoreBPE_decode(t.tekkenizer, <<token_id - t.num_special_tokens>>)
         IN  IF decoded.ok THEN decoded ELSE Err("Tokenizers")

\* Tekkenizer::id_to_byte_piece.  The fallback reads self.vocab, the
\* display strings, when the engine cannot decode the single rank.
id_to_byte_piece(t, token_id, special_token_policy, build) ==
    IF token_id >= t.vocab_size
    THEN (IF t.vocab_size = 0 /\ build = "debug" THEN Err("panic")
          ELSE Err("InvalidConfig"))
    ELSE IF token_id < t.num_special_tokens
    THEN (IF special_token_policy = "Keep"
          THEN Ok(t.special_tokens[token_id + 1].token_str)
          ELSE IF special_token_policy = "Raise" THEN Err("SpecialTokenPolicy")
          ELSE Ok(<<>>))
    ELSE LET shifted_id == token_id - t.num_special_tokens
             decoded == CoreBPE_decode(t.tekkenizer, <<shifted_id>>)
         IN  IF decoded.ok THEN decoded
             ELSE IF token_id + 1 \in DOMAIN t.vocab THEN Ok(t.vocab[token_id + 1])
             ELSE Err("Tokenizers")

\* is_byte with the bound of the byte region off by one
is_byte_OffByOne(t, token_id) ==
    token_id >= t.num_special_tokens
        /\ token_id - t.num_special_tokens <= ByteIdentityRanks

\* Tekkenizer::is_byte.  The cast num_special_tokens as u32 is exact for
\* the tokenizers of the model, whose num_special_tokens is below 2^32.
is_byte(t, token_id) ==
    IF token_id < t.num_special_tokens THEN FALSE
    ELSE LET shifted_id == token_id - t.num_special_tokens
         IN  shifted_id < ByteIdentityRanks

----------------------------------------------------------------------------
(* Audio (src/src/audio.rs).  An f64 parameter is the fraction num/den of  *)
(* two integers, den a power of two, so that the f64 value is exact; a     *)
(* sample is an integer, 0 for the sample 0.0.                             *)

Frac(num, den) == [num |-> num, den |-> den]

\* AudioSpectrogramConfig::new
AudioSpectrogramConfigNew(num_mel_bins, hop_length, window_size) ==
    IF num_mel_bins = 0 THEN Err("InvalidConfig")
    ELSE IF hop_length = 0 THEN Err("InvalidConfig")
    ELSE IF window_size = 0 THEN Err("InvalidConfig")
    ELSE Ok([num_mel_bins |-> num_mel_bins, hop_length |-> hop_length,
             window_size |-> window_size])

\* AudioConfig::new; chunk_length_s is <<>> for None, <<f>> for Some(f)
AudioConfigNew(sampling_rate, frame_rate, encoding_config, chunk_length_s) ==
    IF sampling_rate = 0 THEN Err("InvalidConfig")
    ELSE IF frame_rate.num <= 0 THEN Err("InvalidConfig")
    ELSE IF chunk_length_s # <<>> /\ chunk_length_s[1].num <= 0 THEN Err("InvalidConfig")
    ELSE Ok([sampling_rate |-> sampling_rate, frame_rate |-> frame_rate,
             audio_encoding_config |-> encoding_config,
             chunk_length_s |-> chunk_length_s])

\* AudioConfig::chunk_frames: (chunk_length * sampling_rate as f64) as usize
chunk_frames(config) ==
    IF config.chunk_length_s = <<>> THEN Err("InvalidConfig")
    ELSE Ok((config.chunk_length_s[1].num * config.sampling_rate)
                \div config.chunk_length_s[1].den)

\* audio_length_per_tok without the division by the hop length
audio_length_per_tok_NoHop(config) ==
    (config.sampling_rate * config.frame_rate.den) \div config.frame_rate.num

\* AudioConfig::audio_length_per_tok:
\* (sampling_rate as f64 / frame_rate / hop_length as f64) as usize
audio_length_per_tok(config) ==
    (config.sampling_rate * config.frame_rate.den)
        \div (config.frame_rate.num * config.audio_encoding_config.hop_length)

\* struct Audio
Audio(audio_array, sampling_rate, format) ==
    [audio_array |-> audio_array, sampling_rate |-> sampling_rate, format |-> format]

\* the outcome of a &mut self method: its Result and the waveform after it
Mutated(res, audio) == [res |-> res, audio |-> audio]

\* resample silently skipped when the rates differ
resample_Skipped(audio, target_rate) == Mutated(Ok(<<>>), audio)

\* Audio::resample
resample(audio, target_rate) ==
    IF audio.sampling_rate = target_rate THEN Mutated(Ok(<<>>), audio)
    ELSE Mutated(Err("Audio"), audio)

\* Array1::zeros(target_length) with the first samples assigned
ZeroExtended(audio_array, target_length) ==
    [i \in 1..target_length |->
        IF i <= Len(audio_array) THEN audio_array[i] ELSE 0]

\* Audio::pad.  With chunk_frames = 0 the usize arithmetic of next_multiple
\* panics: the subtraction overflows or the division is by zero.
pad(audio, config) ==
    LET current_length == Len(audio.audio_array)
        frames == chunk_frames(config).val
        target_length ==
            IF config.chunk_length_s # <<>>
            THEN ((current_length + frames - 1) \div frames) * frames
            ELSE config.audio_encoding_config.window_size
    IN  IF config.chunk_length_s # <<>> /\ frames = 0
        THEN Mutated(Err("panic"), audio)
        ELSE IF /\ config.chunk_length_s = <<>>
                /\ current_length >= config.audio_encoding_config.window_size
        THEN Mutated(Ok(<<>>), audio)
        ELSE IF target_length > current_length
        THEN Mutated(Ok(<<>>),
                     [audio EXCEPT !.audio_array = ZeroExtended(@, target_length)])
        ELSE Mutated(Ok(<<>>), audio)

\* ceil(a / b) of the f64 quotient of two integers, b > 0
CeilDiv(a, b) == (a + b - 1) \div b

\* the downsampled length rounded up, the subtraction of 1.0 forgotten
SignalLengthInHops_RoundedUp(signal_length, hop_length) ==
    CeilDiv(signal_length, hop_length)

\* the signal length after downsampling:
\* (signal_length / hop_length - 1.0).ceil() when hop_length does not
\* divide it, signal_length / hop_length otherwise
SignalLengthInHops(signal_length, hop_length) ==
    IF signal_length % hop_length # 0
    THEN CeilDiv(signal_length - hop_length, hop_length)
    ELSE signal_length \div hop_length

\* AudioEncoder::encode.  With audio_length_per_tok() = 0 the f64 quotient
\* is NaN for no hops, cast to 0, and infinite otherwise, cast to
\* usize::MAX, for which the allocation of the tokens panics.
AudioEncoder_encode(encoder, audio_in) ==
    LET resampled == resample(audio_in, encoder.config.sampling_rate)
        padded == pad(resampled.audio, encoder.config)
        audio == padded.audio
        signal_length ==
            SignalLengthInHops(Len(audio.audio_array),
                               encoder.config.audio_encoding_config.hop_length)
        per_tok == audio_length_per_tok(encoder.config)
        num_audio_tokens ==
            IF per_tok = 0 THEN 0 ELSE CeilDiv(signal_length, per_tok)
    IN  IF ~resampled.res.ok THEN resampled.res
        ELSE IF ~padded.res.ok THEN padded.res
        ELSE IF per_tok = 0 /\ signal_length > 0 THEN Err("panic")
        ELSE Ok([tokens |-> <<encoder.begin_audio_token_id>>
                            \o [i \in 1..num_audio_tokens |-> encoder.audio_token_id],
                 audio |-> audio])

\* Tekkenizer::encode_audio
encode_audio(t, audio) ==
    IF t.audio_encoder # <<>> THEN AudioEncoder_encode(t.audio_encoder[1], audio)
    ELSE Err("Audio")

\* Tekkenizer::has_audio_support
has_audio_support(t) == t.audio_encoder # <<>>

----------------------------------------------------------------------------
(* Inputs                                                                  *)

\* num_special_tokens is drawn from 0..MaxSpecial
MaxSpecial == 3

\* a text is at most MaxTextLen units of TextUnits
MaxTextLen == 2

\* an id sequence handed to decode has at most MaxIdsLen ids
MaxIdsLen == 3

\* "a", " ", "e-acute" (two bytes) and the literal text "<s>"
TextUnits == {<<97>>, <<32>>, <<195, 169>>, BosStr}

Texts == {Concat(u) : u \in SeqsUpTo(TextUnits, MaxTextLen)}

\* the 256 byte entries, then the merges "e-acute", " a" and "aa"
FullVocab ==
    [r \in 1..256 |-> TokenInfo(r - 1, <<r - 1>>)]
        \o <<TokenInfo(256, <<195, 169>>), TokenInfo(257, <<32, 97>>),
             TokenInfo(258, <<97, 97>>)>>

\* rank 1 is missing
GapVocab == <<TokenInfo(0, <<0>>), TokenInfo(2, <<2>>)>>

\* ranks 0 and 1 hold each other's byte
BadByteVocab == <<TokenInfo(0, <<1>>), TokenInfo(1, <<0>>)>>

\* two entries with the same byte sequence
DupVocab == <<TokenInfo(0, <<0>>), TokenInfo(0, <<0>>)>>

Vocabs == {FullVocab, GapVocab, BadByteVocab, DupVocab}

VocabSizeChoices == {2, 100, 261, 262}

\* a rank outside 0..MaxSpecial
FarRank == MaxSpecial + 4

\* the special_tokens argument of new
SpecialTables ==
    {<<>>,
     <<SpecialTokenInfo(0, UnkStr), SpecialTokenInfo(1, BosStr), SpecialTokenInfo(2, EosStr)>>,
     <<SpecialTokenInfo(0, BosStr), SpecialTokenInfo(1, EosStr)>>,
     <<SpecialTokenInfo(1, BosStr), SpecialTokenInfo(0, EosStr)>>,
     <<SpecialTokenInfo(FarRank, BosStr), SpecialTokenInfo(1, EosStr)>>,
     <<SpecialTokenInfo(0, BosStr), SpecialTokenInfo(0, EosStr)>>,
     <<SpecialTokenInfo(0, BosStr), SpecialTokenInfo(1, BosStr)>>,
     <<SpecialTokenInfo(0, BosStr)>>,
     <<SpecialTokenInfo(0, PlaceholderStr(1))>>,
     <<SpecialTokenInfo(0, <<>>), SpecialTokenInfo(1, BosStr)>>,
     <<SpecialTokenInfo(0, BeginAudioStr), SpecialTokenInfo(1, AudioStr)>>}

\* AudioConfig::new(24000, 12.5, AudioSpectrogramConfig::new(80, 160, 400), None)
DefaultAudioConfig ==
    AudioConfigNew(24000, Frac(25, 2),
                   AudioSpectrogramConfigNew(80, 160, 400).val, <<>>).val

AudioChoices == {<<>>, <<DefaultAudioConfig>>}

Versions == {"V7"}

Builds == {"debug", "release"}

\* names asked of get_control_token
ControlNames ==
    {BosStr, EosStr, UnkStr, PadStr, AudioStr, BeginAudioStr,
     PlaceholderStr(1), PlaceholderStr(2), <<>>}

\* ids handed to decode: two low ids, the ids of the bytes "a", 0xC3 and
\* 0xA9, the id of the merge "e-acute", and the first id past the vocabulary
IdPool(t) ==
    {0, 1, t.num_special_tokens + 97, t.num_special_tokens + 195,
     t.num_special_tokens + 169, t.vocab_size}

IdSeqs(t) == SeqsUpTo(IdPool(t), MaxIdsLen)

\* u32 ids around the boundaries of the special and the byte region
U32Pool(t) ==
    {0, t.num_special_tokens, t.num_special_tokens + 1,
     t.num_special_tokens + ByteIdentityRanks - 1,
     t.num_special_tokens + ByteIdentityRanks, 2147483647}
        \cup {id \in {t.num_special_tokens - 1} : id >= 0}

\* a waveform has at most MaxSamples samples, or is the one-second signal
MaxSamples == 5

\* the arguments of AudioSpectrogramConfig::new and AudioConfig::new
AudioArgs(sampling_rate, frame_rate, num_mel_bins, hop_length, window_size, chunk_length_s) ==
    [sampling_rate |-> sampling_rate, frame_rate |-> frame_rate,
     num_mel_bins |-> num_mel_bins, hop_length |-> hop_length,
     window_size |-> window_size, chunk_length_s |-> chunk_length_s]

AudioArgChoices ==
    {AudioArgs(24000, Frac(25, 2), 80, 160, 400, <<>>),
     AudioArgs(8, Frac(2, 1), 80, 2, 4, <<>>),
     AudioArgs(8, Frac(2, 1), 80, 2, 3, <<>>),
     AudioArgs(8, Frac(2, 1), 80, 2, 4, <<Frac(1, 2)>>),
     AudioArgs(8, Frac(2, 1), 80, 2, 4, <<Frac(3, 8)>>),
     AudioArgs(8, Frac(8, 1), 80, 2, 4, <<>>),
     AudioArgs(8, Frac(2, 1), 80, 2, 4, <<Frac(1, 16)>>),
     AudioArgs(0, Frac(2, 1), 80, 2, 4, <<>>),
     AudioArgs(8, Frac(0, 1), 80, 2, 4, <<>>),
     AudioArgs(8, Frac(2, 1), 0, 2, 4, <<>>),
     AudioArgs(8, Frac(2, 1), 80, 0, 4, <<>>),
     AudioArgs(8, Frac(2, 1), 80, 2, 0, <<>>),
     AudioArgs(8, Frac(2, 1), 80, 2, 4, <<Frac(0, 1)>>)}

\* the ids an AudioEncoder is built with
AudioIdChoices == {<<1, 0>>, <<24, 25>>}

\* one second at 24000 Hz
OneSecond == Audio([i \in 1..24000 |-> 0], 24000, "wav")

WaveformRates == {8, 16000}

Waveforms ==
    {Audio(a, r, "wav") : a \in SeqsUpTo({0, 1}, MaxSamples), r \in WaveformRates}
        \cup {OneSecond}

----------------------------------------------------------------------------
(* The state machine: one call per step on the tokenizer built first       *)

Init ==
    /\ tk = [state |-> "none"]
    /\ op = [name |-> "none"]
    /\ ret = Ok(<<>>)

\* a tokenizer was built and the caller holds no result
Ready == tk.state = "ready" /\ op.name = "idle"

New ==
    /\ tk.state = "none"
    /\ \E vocab \in Vocabs, special_tokens \in SpecialTables,
          vocab_size \in VocabSizeChoices, num_special_tokens \in 0..MaxSpecial,
          version \in Versions, audio_config \in AudioChoices, build \in Builds :
          LET r == TekkenizerNew(vocab, special_tokens, vocab_size,
                                 num_special_tokens, version, audio_config, build)
          IN  /\ tk' = IF r.ok THEN [state |-> "ready", t |-> r.val]
                       ELSE [state |-> "failed"]
              /\ op' = [name |-> "new", vocab_len |-> Len(vocab), vocab |-> vocab,
                        special_tokens |-> special_tokens,
                        vocab_size |-> vocab_size,
                        num_special_tokens |-> num_special_tokens,
                        audio_config |-> audio_config, build |-> build]
              /\ ret' = IF r.ok THEN Ok(<<>>) ELSE r

Encode ==
    /\ Ready
    /\ \E text \in Texts, add_bos \in BOOLEAN, add_eos \in BOOLEAN :
          /\ op' = [name |-> "encode", text |-> text, add_bos |-> add_bos,
                    add_eos |-> add_eos]
          /\ ret' = encode(tk.t, text, add_bos, add_eos)
    /\ UNCHANGED tk

\* decode(&tokens, policy) on the tokens the last encode returned
DecodeEncoded ==
    /\ op.name = "encode"
    /\ ret.ok
    /\ \E policy \in Policies :
          /\ op' = [name |-> "decode", tokens |-> ret.val, policy |-> policy,
                    encoded |-> <<op>>]
          /\ ret' = decode(tk.t, ret.val, policy)
    /\ UNCHANGED tk

Decode ==
    /\ Ready
    /\ \E tokens \in IdSeqs(tk.t), policy \in Policies :
          /\ op' = [name |-> "decode", tokens |-> tokens, policy |-> policy,
                    encoded |-> <<>>]
          /\ ret' = decode(tk.t, tokens, policy)
    /\ UNCHANGED tk

DecodeAll ==
    /\ Ready
    /\ \E tokens \in IdSeqs(tk.t), policy \in Policies :
          /\ op' = [name |-> "decode_all", tokens |-> tokens, policy |-> policy]
          /\ ret' = decode_all(tk.t, tokens, policy)
    /\ UNCHANGED tk

GetControlToken ==
    /\ Ready
    /\ \E token_str \in ControlNames :
          /\ op' = [name |-> "get_control_token", token_str |-> token_str]
          /\ ret' = get_control_token(tk.t, token_str)
    /\ UNCHANGED tk

\* id_to_piece on an id of the pool
IdToPiece ==
    /\ Ready
    /\ \E token_id \in IdPool(tk.t), build \in Builds :
          /\ op' = [name |-> "id_to_piece", token_id |-> token_id, control |-> <<>>]
          /\ ret' = id_to_piece(tk.t, token_id, build)
    /\ UNCHANGED tk

\* id_to_piece on the id the last get_control_token returned
IdToPieceOfControl ==
    /\ op.name = "get_control_token"
    /\ ret.ok
    /\ \E build \in Builds :
          /\ op' = [name |-> "id_to_piece", token_id |-> ret.val,
                    control |-> <<op.token_str>>]
          /\ ret' = id_to_piece(tk.t, ret.val, build)
    /\ UNCHANGED tk

\* id_to_byte_piece on an id of the pool
IdToBytePiece ==
    /\ Ready
    /\ \E token_id \in IdPool(tk.t), policy \in Policies, build \in Builds :
          /\ op' = [name |-> "id_to_byte_piece", token_id |-> token_id,
                    policy |-> policy]
          /\ ret' = id_to_byte_piece(tk.t, token_id, policy, build)
    /\ UNCHANGED tk

IsByte ==
    /\ Ready
    /\ \E token_id \in U32Pool(tk.t) :
          /\ op' = [name |-> "is_byte", token_id |-> token_id]
          /\ ret' = Ok(is_byte(tk.t, token_id))
    /\ UNCHANGED tk

IsSpecialToken ==
    /\ Ready
    /\ \E token_id \in U32Pool(tk.t) :
          /\ op' = [name |-> "is_special_token", token_id |-> token_id]
          /\ ret' = Ok(is_special_token(tk.t, token_id))
    /\ UNCHANGED tk

HasAudioSupport ==
    /\ Ready
    /\ op' = [name |-> "has_audio_support"]
    /\ ret' = Ok(has_audio_support(tk.t))
    /\ UNCHANGED tk

EncodeAudio ==
    /\ Ready
    /\ \E audio \in Waveforms :
          /\ op' = [name |-> "encode_audio", audio |-> audio]
          /\ ret' = encode_audio(tk.t, audio)
    /\ UNCHANGED tk

\* AudioSpectrogramConfig::new, AudioConfig::new, then AudioEncoder::new
NewAudioEncoder ==
    /\ tk.state = "none"
    /\ \E a \in AudioArgChoices, ids \in AudioIdChoices :
          LET spectrogram_config ==
                  AudioSpectrogramConfigNew(a.num_mel_bins, a.hop_length, a.window_size)
              config ==
                  IF ~spectrogram_config.ok THEN spectrogram_config
                  ELSE AudioConfigNew(a.sampling_rate, a.frame_rate,
                                      spectrogram_config.val, a.chunk_length_s)
          IN  /\ tk' = IF config.ok
                       THEN [state |-> "encoder",
                             encoder |-> AudioEncoderNew(config.val, ids[1], ids[2])]
                       ELSE [state |-> "failed"]
              /\ op' = [name |-> "new_audio_encoder", args |-> a]
              /\ ret' = IF config.ok THEN Ok(<<>>) ELSE config

\* an AudioEncoder was built and the caller holds no result
EncoderReady == tk.state = "encoder" /\ op.name = "idle"

AudioEncode ==
    /\ EncoderReady
    /\ \E audio \in Waveforms :
          /\ op' = [name |-> "audio_encode", audio |-> audio]
          /\ ret' = AudioEncoder_encode(tk.encoder, audio)
    /\ UNCHANGED tk

\* audio.pad(&config) with the configuration of the encoder
Pad ==
    /\ EncoderReady
    /\ \E audio \in Waveforms :
          LET m == pad(audio, tk.encoder.config)
          IN  /\ op' = [name |-> "pad", audio |-> audio, after |-> m.audio]
              /\ ret' = m.res
    /\ UNCHANGED tk

Resample ==
    /\ EncoderReady
    /\ \E audio \in Waveforms, target_rate \in WaveformRates :
          LET m == resample(audio, target_rate)
          IN  /\ op' = [name |-> "resample", audio |-> audio,
                        target_rate |-> target_rate, after |-> m.audio]
              /\ ret' = m.res
    /\ UNCHANGED tk

(* mel_filter_bank. An f64 is modelled by an exact fraction num/den kept  *)
(* in lowest terms with den >= 0: den = 0 is an infinity (num # 0) or NaN *)
(* (num = 0), so 0/0, x/0 and 0 * inf come out as IEEE 754 gives them.    *)
(* Frequencies stay below min_log_hertz = 1000 Hz, where hertz_to_mel and *)
(* mel_to_hertz take their linear branch; the logarithmic branch has no   *)
(* exact value and is outside the inputs of the model.                    *)

RECURSIVE Gcd(_, _)
Gcd(a, b) == IF b = 0 THEN a ELSE Gcd(b, a % b)

Abs(x) == IF x < 0 THEN 0 - x ELSE x

\* the f64 of the quotient num / den
F64(num, den) ==
    IF den = 0 THEN Frac(IF num > 0 THEN 1 ELSE IF num < 0 THEN 0 - 1 ELSE 0, 0)
    ELSE LET g == Gcd(Abs(num), Abs(den))
             sign == IF den < 0 THEN 0 - 1 ELSE 1
         IN  Frac(sign * (num \div g), sign * (den \div g))

FromUsize(n) == Frac(n, 1)

IsNaN(x) == x.den = 0 /\ x.num = 0

FAdd(x, y) ==
    IF x.den = 0 \/ y.den = 0
    THEN (IF IsNaN(x) \/ IsNaN(y) \/ (x.den = 0 /\ y.den = 0 /\ x.num # y.num)
          THEN Frac(0, 0)
          ELSE IF x.den = 0 THEN x ELSE y)
    ELSE F64(x.num * y.den + y.num * x.den, x.den * y.den)

FNeg(x) == Frac(0 - x.num, x.den)

FSub(x, y) == FAdd(x, FNeg(y))

FMul(x, y) == F64(x.num * y.num, x.den * y.den)

FDiv(x, y) ==
    IF y.den = 0 THEN (IF x.den = 0 \/ IsNaN(y) THEN Frac(0, 0) ELSE Frac(0, 1))
    ELSE F64(x.num * y.den, x.den * y.num)

\* x <= y and x < y of f64: false when either side is NaN
FLe(x, y) == ~IsNaN(x) /\ ~IsNaN(y) /\ x.num * y.den <= y.num * x.den

FLt(x, y) == ~IsNaN(x) /\ ~IsNaN(y) /\ x.num * y.den < y.num * x.den

\* f64::max: the other operand when one is NaN
FMax(x, y) == IF IsNaN(x) THEN y ELSE IF IsNaN(y) THEN x ELSE IF FLt(x, y) THEN y ELSE x

\* hertz_to_mel, for freq < min_log_hertz
hertz_to_mel(freq) == FDiv(FMul(Frac(3, 1), freq), Frac(200, 1))

\* mel_to_hertz, for mel < min_log_mel
mel_to_hertz(mel) == FDiv(FMul(Frac(200, 1), mel), Frac(3, 1))

\* the triangular weight of FFT frequency fft_freq in the filter
\* (left_freq, center_freq, right_freq), before normalisation
Triangle(fft_freq, left_freq, center_freq, right_freq) ==
    LET value ==
            IF FLe(left_freq, fft_freq) /\ FLe(fft_freq, center_freq)
            THEN FDiv(FSub(fft_freq, left_freq), FSub(center_freq, left_freq))
            ELSE IF FLt(center_freq, fft_freq) /\ FLe(fft_freq, right_freq)
            THEN FDiv(FSub(right_freq, fft_freq), FSub(right_freq, center_freq))
            ELSE Frac(0, 1)
    IN  FMax(value, Frac(0, 1))

\* the filter bank once both argument checks have passed; row freq_idx + 1,
\* column mel_idx + 1
FilterBank(num_frequency_bins, num_mel_bins, min_frequency, max_frequency, sampling_rate) ==
    LET mel_min == hertz_to_mel(min_frequency)
        mel_max == hertz_to_mel(max_frequency)
        mel_freqs ==
            [i \in 0..(num_mel_bins + 1) |->
                FAdd(mel_min, FDiv(FMul(FSub(mel_max, mel_min), FromUsize(i)),
                                   FromUsize(num_mel_bins + 1)))]
        filter_freqs == [i \in 0..(num_mel_bins + 1) |-> mel_to_hertz(mel_freqs[i])]
        fft_freqs ==
            [i \in 0..(num_frequency_bins - 1) |->
                FDiv(FDiv(FMul(FromUsize(i), FromUsize(sampling_rate)), Frac(2, 1)),
                     FromUsize(num_frequency_bins - 1))]
        enorm(mel_idx) ==
            FDiv(Frac(2, 1), FSub(filter_freqs[mel_idx + 2], filter_freqs[mel_idx]))
    IN  [shape |-> <<num_frequency_bins, num_mel_bins>>,
         data |-> [freq_idx \in 1..num_frequency_bins |->
                      [mel_idx \in 1..num_mel_bins |->
                          FMul(Triangle(fft_freqs[freq_idx - 1],
                                        filter_freqs[mel_idx - 1],
                                        filter_freqs[mel_idx],
                                        filter_freqs[mel_idx + 1]),
                               enorm(mel_idx - 1))]]]

\* mel_filter_bank computing the FFT bin spacing before it checks its
\* arguments: num_frequency_bins - 1 underflows for no bins
mel_filter_bank_CheckLate(num_frequency_bins, num_mel_bins, min_frequency, max_frequency, sampling_rate, build) ==
    IF num_frequency_bins = 0 /\ build = "debug" THEN Err("panic")
    ELSE IF num_frequency_bins < 2 THEN Err("InvalidConfig")
    ELSE IF FLt(max_frequency, min_frequency) THEN Err("InvalidConfig")
    ELSE Ok(FilterBank(num_frequency_bins, num_mel_bins, min_frequency,
                       max_frequency, sampling_rate))

\* mel_filter_bank
mel_filter_bank(num_frequency_bins, num_mel_bins, min_frequency, max_frequency, sampling_rate, build) ==
    IF num_frequency_bins < 2 THEN Err("InvalidConfig")
    ELSE IF FLt(max_frequency, min_frequency) THEN Err("InvalidConfig")
    ELSE Ok(FilterBank(num_frequency_bins, num_mel_bins, min_frequency,
                       max_frequency, sampling_rate))

\* arguments of mel_filter_bank: bin counts around the accepted minimum,
\* band edges below 1000 Hz in either order
FrequencyBinChoices == {0, 1, 2, 3, 5}

MelBinChoices == {0, 1, 2, 3}

FrequencyChoices == {Frac(0, 1), Frac(200, 1), Frac(400, 1), Frac(1601, 2)}

SamplingRateChoices == {800, 1600}

MelFilterBank ==
    /\ tk.state = "none"
    /\ \E num_frequency_bins \in FrequencyBinChoices, num_mel_bins \in MelBinChoices,
          min_frequency \in FrequencyChoices, max_frequency \in FrequencyChoices,
          sampling_rate \in SamplingRateChoices, build \in Builds :
          /\ op' = [name |-> "mel_filter_bank",
                    num_frequency_bins |-> num_frequency_bins,
                    num_mel_bins |-> num_mel_bins,
                    min_frequency |-> min_frequency,
                    max_frequency |-> max_frequency,
                    sampling_rate |-> sampling_rate]
          /\ ret' = mel_filter_bank(num_frequency_bins, num_mel_bins, min_frequency,
                                    max_frequency, sampling_rate, build)
    /\ tk' = [state |-> "filters"]

\* the variants of enum TokenizerVersion
TokenizerVersion == {"V3", "V7", "V11", "V13"}

\* TokenizerVersion::from_string accepting the tag in upper case as well
from_string_AnyCase(s) ==
    CASE s \in {"v3", "V3"} -> <<"V3">>
      [] s \in {"v7", "V7"} -> <<"V7">>
      [] s \in {"v11", "V11"} -> <<"V11">>
      [] s \in {"v13", "V13"} -> <<"V13">>
      [] OTHER -> <<>>

\* TokenizerVersion::from_string
from_string(s) ==
    CASE s = "v3" -> <<"V3">>
      [] s = "v7" -> <<"V7">>
      [] s = "v11" -> <<"V11">>
      [] s = "v13" -> <<"V13">>
      [] OTHER -> <<>>

\* TokenizerVersion::as_str
as_str(version) ==
    CASE version = "V3" -> "v3"
      [] version = "V7" -> "v7"
      [] version = "V11" -> "v11"
      [] version = "V13" -> "v13"

\* Tekkenizer::from_file on a file that cannot be read, a file that is not
\* the JSON of a ModelData, or the JSON of model_data
from_file(file, build) ==
    IF file.kind = "unreadable" THEN Err("Io")
    ELSE IF file.kind = "malformed" THEN Err("Json")
    ELSE LET model_data == file.model_data
             version == from_string(model_data.config.version)
         IN  IF version = <<>> THEN Err("InvalidConfig")
             ELSE TekkenizerNew(model_data.vocab, model_data.special_tokens,
                                model_data.config.default_vocab_size,
                                model_data.config.default_num_special_tokens,
                                version[1], model_data.audio, build)

\* version tags found in a tokenizer file: the four known ones, a known one
\* in upper case, an unknown one and the empty string
VersionTags == {"v3", "v7", "v11", "v13", "V7", "v1", ""}

\* the files handed to from_file; the model data carry the full byte
\* table, three special tokens of their own and no audio section
Files ==
    {[kind |-> "unreadable"], [kind |-> "malformed"]}
    \cup {[kind |-> "json",
           model_data |->
               [vocab |-> FullVocab,
                special_tokens |-> <<SpecialTokenInfo(0, UnkStr),
                                     SpecialTokenInfo(1, BosStr),
                                     SpecialTokenInfo(2, EosStr)>>,
                config |-> [default_vocab_size |-> Len(FullVocab) + MaxSpecial,
                            default_num_special_tokens |-> MaxSpecial,
                            version |-> tag],
                audio |-> <<>>]] : tag \in VersionTags}

FromFile ==
    /\ tk.state = "none"
    /\ \E file \in Files, build \in Builds :
          LET r == from_file(file, build)
          IN  /\ tk' = IF r.ok THEN [state |-> "ready", t |-> r.val]
                       ELSE [state |-> "failed"]
              /\ op' = [name |-> "from_file", file |-> file]
              /\ ret' = IF r.ok THEN Ok(<<>>) ELSE r

\* the caller drops the result it holds
Return ==
    /\ tk.state \in {"ready", "encoder"}
    /\ op.name # "idle"
    /\ op' = [name |-> "idle"]
    /\ ret' = Ok(<<>>)
    /\ UNCHANGED tk

Next ==
    \/ New
    \/ Encode
    \/ DecodeEncoded
    \/ Decode
    \/ DecodeAll
    \/ GetControlToken
    \/ IdToPiece
    \/ IdToPieceOfControl
    \/ IdToBytePiece
    \/ IsByte
    \/ IsSpecialToken
    \/ HasAudioSupport
    \/ EncodeAudio
    \/ NewAudioEncoder
    \/ AudioEncode
    \/ Pad
    \/ Resample
    \/ MelFilterBank
    \/ FromFile
    \/ Return

Spec == Init /\ [][Next]_vars

----------------------------------------------------------------------------
(* Vocabulary of the properties                                            *)

T == tk.t

\* some id of the sequence lies in the special region
HasSpecial(t, ids) == \E i \in DOMAIN ids : ids[i] < t.num_special_tokens

\* the engine holds every rank of a non-special run and the bytes of the
\* run, taken together, are valid UTF-8
EngineAccepts(t, run) ==
    /\ \A i \in DOMAIN run :
          (run[i] - t.num_special_tokens) \in DOMAIN t.tekkenizer.decoder
    /\ IsUtf8(Concat([i \in DOMAIN run |->
                         t.tekkenizer.decoder[run[i] - t.num_special_tokens]]))

\* ids[i..j] is a maximal run of consecutive non-special ids
MaximalPlainRun(t, ids, i, j) ==
    /\ i <= j
    /\ \A k \in i..j : ids[k] >= t.num_special_tokens
    /\ (i = 1 \/ ids[i - 1] < t.num_special_tokens)
    /\ (j = Len(ids) \/ ids[j + 1] < t.num_special_tokens)

\* the engine rejects some maximal run of non-special ids
SomeRunRejected(t, ids) ==
    \E i, j \in DOMAIN ids :
        MaximalPlainRun(t, ids, i, j) /\ ~EngineAccepts(t, SubSeq(ids, i, j))

RECURSIVE Segments(_, _, _)
\* one segment per maximal run of non-special ids and, under Keep, one per
\* special id holding the text of the table entry at that id
Segments(t, ids, policy) ==
    IF ids = <<>> THEN <<>>
    ELSE IF Head(ids) < t.num_special_tokens
    THEN (IF policy = "Keep" THEN <<t.special_tokens[Head(ids) + 1].token_str>>
          ELSE <<>>) \o Segments(t, Tail(ids), policy)
    ELSE LET j == CHOOSE k \in DOMAIN ids : MaximalPlainRun(t, ids, 1, k)
         IN  <<Concat([i \in 1..j |->
                          t.tekkenizer.decoder[ids[i] - t.num_special_tokens]])>>
                \o Segments(t, SubSeq(ids, j + 1, Len(ids)), policy)

\* the table registers the BOS and the EOS text
HasBosEos(t) ==
    BosStr \in DOMAIN t.special_tokens_map /\ EosStr \in DOMAIN t.special_tokens_map

----------------------------------------------------------------------------
(* Properties                                                              *)

\* C1 (as stated): on every constructed tokenizer, encode(t, false, false)
\* returns for every text t, and decoding what it returned under Ignore
\* gives t back.
C1_RoundTrip ==
    /\ (op.name = "encode" /\ ~op.add_bos /\ ~op.add_eos) => ret.ok
    /\ (/\ op.name = "decode"
        /\ op.encoded # <<>>
        /\ op.policy = "Ignore"
        /\ ~op.encoded[1].add_bos
        /\ ~op.encoded[1].add_eos) => ret = Ok(op.encoded[1].text)

\* C2 (as stated): on every constructed tokenizer that registers "<s>" and
\* "</s>", encode(t, true, true) returns, decoding it under Ignore gives t
\* and decoding it under Keep gives a text containing "<s>" and "</s>".
C2_RoundTripBosEos ==
    (tk.state = "ready" /\ HasBosEos(T)) =>
        /\ (op.name = "encode" /\ op.add_bos /\ op.add_eos) => ret.ok
        /\ (/\ op.name = "decode"
            /\ op.encoded # <<>>
            /\ op.encoded[1].add_bos
            /\ op.encoded[1].add_eos) =>
               /\ op.policy = "Ignore" => ret = Ok(op.encoded[1].text)
               /\ op.policy = "Keep" =>
                     /\ ret.ok
                     /\ Contains(ret.val, BosStr)
                     /\ Contains(ret.val, EosStr)

\* C3 (as stated): decode_all and decode under Raise fail if and only if
\* some id is special.
C3_RaiseFailsIffSpecial ==
    (op.name \in {"decode", "decode_all"} /\ op.policy = "Raise") =>
        (~ret.ok <=> HasSpecial(T, op.tokens))

\* C3 (amended): decode_all and decode under Raise fail if and only if some
\* id is special or the engine rejects the ids (a rank outside its table,
\* or bytes that are not valid UTF-8).
C3_RaiseFailsIffSpecialOrRejected ==
    (op.name \in {"decode", "decode_all"} /\ op.policy = "Raise") =>
        (~ret.ok <=> (HasSpecial(T, op.tokens) \/ ~EngineAccepts(T, op.tokens)))

\* C3 witness: a sequence of non-special ids only that fails under Raise
C3_Witness ==
    /\ op.name = "decode_all"
    /\ op.policy = "Raise"
    /\ op.tokens # <<>>
    /\ ~HasSpecial(T, op.tokens)
    /\ ~ret.ok

\* C4 (as stated): decode_all under Ignore never fails.
C4_IgnoreNeverFails ==
    (op.name = "decode_all" /\ op.policy = "Ignore") => ret.ok

\* C4 (amended): decode_all under Ignore never fails on a special id; it
\* fails if and only if the engine rejects some maximal run of non-special
\* ids (a rank outside its table, or run bytes that are not valid UTF-8).
C4_IgnoreFailsIffRunRejected ==
    (op.name = "decode_all" /\ op.policy = "Ignore") =>
        (~ret.ok <=> SomeRunRejected(T, op.tokens))

\* C4 witness: a mix of special and non-special ids decoded under Ignore
C4_Witness ==
    /\ op.name = "decode_all"
    /\ op.policy = "Ignore"
    /\ HasSpecial(T, op.tokens)
    /\ \E i \in DOMAIN op.tokens : op.tokens[i] >= T.num_special_tokens
    /\ ret.ok

C6_BosEosInsertion ==
    (op.name = "encode" /\ encode(T, op.text, FALSE, FALSE).ok) =>
        LET r == encode(T, op.text, FALSE, FALSE).val
            map == T.special_tokens_map
            missing == \/ op.add_bos /\ BosStr \notin DOMAIN map
                       \/ op.add_eos /\ EosStr \notin DOMAIN map
        IN  IF missing THEN ~ret.ok /\ ret.err = "TokenNotFound"
            ELSE ret = Ok((IF op.add_bos THEN <<map[BosStr]>> ELSE <<>>)
                          \o r
                          \o (IF op.add_eos THEN <<map[EosStr]>> ELSE <<>>))

\* C6 witness: a non-empty text encoded with both markers
C6_Witness ==
    /\ op.name = "encode"
    /\ op.add_bos
    /\ op.add_eos
    /\ ret.ok
    /\ Len(ret.val) >= 3

\* C7 (as stated): every id of encode(t, false, false) lies in
\* [num_special_tokens, vocab_size).
C7_EncodedIdsInRange ==
    (op.name = "encode" /\ ~op.add_bos /\ ~op.add_eos /\ ret.ok) =>
        \A i \in DOMAIN ret.val :
            T.num_special_tokens <= ret.val[i] /\ ret.val[i] < T.vocab_size

\* C8 (as stated): the texts of the special-token table of a constructed
\* tokenizer are pairwise distinct, and construction fails when two of the
\* special tokens supplied share a text.
C8_SpecialTextsDistinct ==
    /\ tk.state = "ready" =>
           \A i, j \in DOMAIN T.special_tokens :
               i # j => T.special_tokens[i].token_str # T.special_tokens[j].token_str
    /\ (/\ op.name = "new"
        /\ \E i, j \in DOMAIN op.special_tokens :
              /\ i # j
              /\ op.special_tokens[i].token_str = op.special_tokens[j].token_str)
           => tk.state = "failed"

\* C9 (as stated): the special-token table of a constructed tokenizer has
\* num_special_tokens entries whose ranks are a permutation of
\* [0, num_special_tokens), and every id get_control_token returns is
\* special.
C9_RanksArePermutation ==
    /\ tk.state = "ready" =>
           /\ Len(T.special_tokens) = T.num_special_tokens
           /\ {T.special_tokens[i].rank : i \in DOMAIN T.special_tokens}
                = 0..(T.num_special_tokens - 1)
    /\ (op.name = "get_control_token" /\ ret.ok) =>
           /\ ret.val < T.num_special_tokens
           /\ is_special_token(T, ret.val)

\* C10 (as stated): for every registered text n,
\* id_to_piece(get_control_token(n)) returns n.
C10_NameIdRoundTrip ==
    (op.name = "id_to_piece" /\ op.control # <<>>) => ret = Ok(op.control[1])

----------------------------------------------------------------------------
(* Properties of construction, pieces and audio                            *)

\* the entries of the vocab handed to new that are kept after truncation
\* to vocab_size - num_special_tokens
Retained(o) ==
    IF /\ o.vocab_size >= o.num_special_tokens
       /\ Len(o.vocab) > o.vocab_size - o.num_special_tokens
    THEN SubSeq(o.vocab, 1, o.vocab_size - o.num_special_tokens)
    ELSE o.vocab

\* the retained entries of rank < 256 whose bytes are not the single byte
BadByteEntries(o) ==
    {i \in DOMAIN Retained(o) :
        /\ Retained(o)[i].rank < ByteIdentityRanks
        /\ Retained(o)[i].token_bytes.bytes # <<Retained(o)[i].rank>>}

\* new gets as far as loading the table: the sizes and the special tokens
\* pass its checks and vocab_size - num_special_tokens does not panic
ReachesTable(o) ==
    /\ o.vocab_size <= Len(o.vocab) + o.num_special_tokens
    /\ \A i, j \in DOMAIN o.special_tokens :
          i # j => o.special_tokens[i].token_str # o.special_tokens[j].token_str
    /\ Len(o.special_tokens) <= o.num_special_tokens
    /\ (o.vocab_size >= o.num_special_tokens \/ o.build = "release")

\* C11 (as stated): construction succeeds only if the retained entries have
\* pairwise distinct byte sequences and ranks that are exactly
\* {0, ..., inner_vocab_size - 1}; then every id in
\* [num_special_tokens, vocab_size) has exactly one byte sequence.
C11_RetainedTableContract ==
    (op.name = "new" /\ tk.state = "ready") =>
        LET kept == Retained(op)
        IN  /\ \A i, j \in DOMAIN kept :
                  i # j => kept[i].token_bytes.bytes # kept[j].token_bytes.bytes
            /\ {kept[i].rank : i \in DOMAIN kept}
                 = 0..(op.vocab_size - op.num_special_tokens - 1)
            /\ \A id \in op.num_special_tokens..(op.vocab_size - 1) :
                  (id - op.num_special_tokens) \in DOMAIN T.tekkenizer.decoder

\* C12: in a constructed tokenizer every rank r < 256 of the table holds
\* the single byte [r]; construction fails when a retained entry of rank
\* < 256 holds other bytes, with a configuration error naming the rank of
\* such an entry when construction gets as far as loading the table.
C12_ByteIdentity ==
    /\ tk.state = "ready" =>
           \A r \in DOMAIN T.tekkenizer.decoder :
               r < ByteIdentityRanks => T.tekkenizer.decoder[r] = <<r>>
    /\ (op.name = "new" /\ BadByteEntries(op) # {}) =>
           /\ tk.state = "failed"
           /\ ReachesTable(op) =>
                 /\ ret.err = "InvalidConfig"
                 /\ \E i \in BadByteEntries(op) : ret.val = <<Retained(op)[i].rank>>

\* C12 witness: construction rejected for a byte token, naming its rank
C12_Witness ==
    /\ op.name = "new"
    /\ BadByteEntries(op) # {}
    /\ ReachesTable(op)
    /\ ret = ErrNaming("InvalidConfig", 0)

C14_PieceIsDecodeKeep ==
    op.name = "id_to_piece" =>
        IF op.token_id >= T.vocab_size THEN ~ret.ok
        ELSE ret = decode(T, <<op.token_id>>, "Keep")

\* C14 witness: the piece of a special id within the vocabulary
C14_Witness ==
    /\ op.name = "id_to_piece"
    /\ op.token_id < T.vocab_size
    /\ op.token_id < T.num_special_tokens
    /\ ret.ok
    /\ ret.val # <<>>

\* C15: is_byte(id) iff id >= num_special_tokens and
\* id - num_special_tokens < 256; is_special_token(id) iff
\* id < num_special_tokens.
C15_ByteAndSpecialRegions ==
    /\ op.name = "is_byte" =>
           ret.val = (/\ op.token_id >= T.num_special_tokens
                      /\ op.token_id - T.num_special_tokens < 256)
    /\ op.name = "is_special_token" =>
           ret.val = (op.token_id < T.num_special_tokens)

\* C15 witness: the first id past the byte region is not a byte
C15_Witness ==
    /\ op.name = "is_byte"
    /\ T.num_special_tokens > 0
    /\ op.token_id = T.num_special_tokens + 256
    /\ ret.val = FALSE

\* C16 (as stated): for every waveform at the configured rate,
\* AudioEncoder::encode returns the begin-audio id followed by exactly
\* ceil(signal_length_in_hops / samples_per_token) audio ids, counted on
\* the padded waveform, which it returns with the tokens.
C16_AudioTokenCount ==
    (/\ op.name = "audio_encode"
     /\ op.audio.sampling_rate = tk.encoder.config.sampling_rate) =>
        LET config == tk.encoder.config
            padded == pad(op.audio, config)
            per_tok == audio_length_per_tok(config)
            hops == SignalLengthInHops(Len(padded.audio.audio_array),
                                       config.audio_encoding_config.hop_length)
        IN  /\ ret.ok
            /\ padded.res.ok
            /\ ret.val.audio = padded.audio
            /\ per_tok > 0
            /\ ret.val.tokens =
                 <<tk.encoder.begin_audio_token_id>>
                     \o [i \in 1..CeilDiv(hops, per_tok) |-> tk.encoder.audio_token_id]

\* C17: at 24000 Hz, frame rate 12.5, hop 160, window 400 and no chunking,
\* a 24000-sample waveform at 24000 Hz encodes to the begin-audio id
\* followed by exactly 13 audio ids.
C17_PinnedAudioLength ==
    (/\ op.name = "audio_encode"
     /\ op.audio = OneSecond
     /\ tk.encoder.config = DefaultAudioConfig) =>
        /\ ret.ok
        /\ Len(ret.val.tokens) = 14
        /\ ret.val.tokens = <<tk.encoder.begin_audio_token_id>>
                               \o [i \in 1..13 |-> tk.encoder.audio_token_id]

\* C17 witness: the one-second waveform encoded under the pinned configuration
C17_Witness ==
    /\ op.name = "audio_encode"
    /\ op.audio = OneSecond
    /\ tk.encoder.config = DefaultAudioConfig
    /\ ret.ok

\* C18 (as stated): pad returns the original samples followed only by
\* zeros, rate and format unchanged, of length the smallest multiple of
\* chunk_frames >= L when a chunk length is configured, otherwise
\* window_size when L < window_size, otherwise L.
C18_PadPostcondition ==
    op.name = "pad" =>
        LET config == tk.encoder.config
            before == op.audio.audio_array
            after == op.after.audio_array
            L == Len(before)
        IN  /\ ret.ok
            /\ op.after.sampling_rate = op.audio.sampling_rate
            /\ op.after.format = op.audio.format
            /\ Len(after) >= L
            /\ \A i \in 1..L : after[i] = before[i]
            /\ \A i \in (L + 1)..Len(after) : after[i] = 0
            /\ IF config.chunk_length_s # <<>>
               THEN \E k \in 0..L :
                       /\ Len(after) = k * chunk_frames(config).val
                       /\ \A j \in 0..(k - 1) : j * chunk_frames(config).val < L
               ELSE IF L < config.audio_encoding_config.window_size
               THEN Len(after) = config.audio_encoding_config.window_size
               ELSE Len(after) = L

\* C19: resample succeeds, leaving the waveform unchanged, iff the rates
\* are equal and otherwise returns an audio error without modifying it;
\* AudioEncoder::encode and Tekkenizer::encode_audio fail with it for
\* every waveform whose rate differs from the configured rate.
C19_ResampleNeverSkipped ==
    /\ op.name = "resample" =>
           /\ ret.ok <=> op.audio.sampling_rate = op.target_rate
           /\ ~ret.ok => ret = Err("Audio")
           /\ op.after = op.audio
    /\ (/\ op.name = "audio_encode"
        /\ op.audio.sampling_rate # tk.encoder.config.sampling_rate)
           => ret = Err("Audio")
    /\ (/\ op.name = "encode_audio"
        /\ T.audio_config # <<>>
        /\ op.audio.sampling_rate # T.audio_config[1].sampling_rate)
           => ret = Err("Audio")

\* C19 witness: a tokenizer with audio support handed a waveform at another rate
C19_Witness ==
    /\ op.name = "encode_audio"
    /\ T.audio_config # <<>>
    /\ op.audio.sampling_rate # T.audio_config[1].sampling_rate
    /\ ~ret.ok

\* C20: construction with an AudioConfig succeeds only if "[AUDIO]" and
\* "[BEGIN_AUDIO]" are texts of the table, and the encoder holds the ids
\* those names resolve to; has_audio_support() iff an AudioConfig was
\* supplied; encode_audio without one fails with an audio error.
C20_AudioWiring ==
    /\ (op.name = "new" /\ op.audio_config # <<>> /\ tk.state = "ready") =>
           /\ \E i \in DOMAIN T.special_tokens : T.special_tokens[i].token_str = AudioStr
           /\ \E i \in DOMAIN T.special_tokens :
                 T.special_tokens[i].token_str = BeginAudioStr
           /\ T.audio_encoder # <<>>
           /\ T.audio_encoder[1].config = op.audio_config[1]
           /\ Ok(T.audio_encoder[1].audio_token_id) = get_control_token(T, AudioStr)
           /\ Ok(T.audio_encoder[1].begin_audio_token_id)
                = get_control_token(T, BeginAudioStr)
    /\ (op.name = "new" /\ tk.state = "ready") => T.audio_config = op.audio_config
    /\ op.name = "has_audio_support" => ret.val = (T.audio_config # <<>>)
    /\ (op.name = "encode_audio" /\ T.audio_config = <<>>) => ret = Err("Audio")

\* C20 witness: a tokenizer constructed with an AudioConfig reports support
C20_Witness ==
    /\ op.name = "has_audio_support"
    /\ T.audio_config # <<>>
    /\ ret.val = TRUE

----------------------------------------------------------------------------
(* Control-token lookup                                                    *)

\* the texts of the special-token table of tokenizer t
TableTexts(t) == {t.special_tokens[i].token_str : i \in DOMAIN t.special_tokens}

\* C21: get_control_token(name) succeeds exactly when name is the text of
\* an entry of the special-token table, the empty string included;
\* otherwise it fails with a token-not-found error whose message contains
\* the requested string and lists the available names.
C21_ControlTokenLookup ==
    op.name = "get_control_token" =>
        IF op.token_str \in TableTexts(T)
        THEN /\ ret.ok
             /\ \E i \in DOMAIN T.special_tokens :
                    /\ T.special_tokens[i].token_str = op.token_str
                    /\ T.special_tokens[i].rank = ret.val
        ELSE /\ ~ret.ok
             /\ ret.err = "TokenNotFound"
             /\ ret.val[1].requested = op.token_str
             /\ ret.val[1].available = TableTexts(T)

\* C21 witness: a lookup of a non-empty name the table does not hold
C21_Witness ==
    /\ op.name = "get_control_token"
    /\ op.token_str # <<>>
    /\ op.token_str \notin TableTexts(T)
    /\ TableTexts(T) # {}
    /\ ~ret.ok
----------------------------------------------------------------------------
(* The mel filter bank                                                     *)

\* C22: mel_filter_bank fails with a configuration error, before computing
\* anything, whenever num_frequency_bins < 2 or min_frequency >
\* max_frequency; when it succeeds the bank has shape
\* (num_frequency_bins, num_mel_bins).
C22_MelArgumentChecks ==
    op.name = "mel_filter_bank" =>
        IF op.num_frequency_bins < 2 \/ FLt(op.max_frequency, op.min_frequency)
        THEN ret = Err("InvalidConfig")
        ELSE /\ ret.ok
             /\ ret.val.shape = <<op.num_frequency_bins, op.num_mel_bins>>
             /\ DOMAIN ret.val.data = 1..op.num_frequency_bins
             /\ \A f \in DOMAIN ret.val.data :
                    DOMAIN ret.val.data[f] = 1..op.num_mel_bins

\* C22 witness: a bank of three rows and two columns was returned
C22_Witness ==
    /\ op.name = "mel_filter_bank"
    /\ ret.ok
    /\ ret.val.shape = <<3, 2>>

\* C23 (as stated): a bank mel_filter_bank returns has at least one
\* non-zero weight in every column, an all-zero mel filter being an error.
C23_NoZeroColumn ==
    (op.name = "mel_filter_bank" /\ ret.ok) =>
        \A m \in 1..op.num_mel_bins :
            \E f \in 1..op.num_frequency_bins : ret.val.data[f][m] # Frac(0, 1)
----------------------------------------------------------------------------
(* Version tags                                                            *)

\* C24: TokenizerVersion::from_string(s) returns a version exactly for
\* "v3", "v7", "v11" and "v13"; from_string(v.as_str()) is v for every
\* version v; and loading tokenizer data with any other version tag fails
\* with a configuration error.
C24_VersionTags ==
    /\ \A v \in TokenizerVersion : from_string(as_str(v)) = <<v>>
    /\ (op.name = "from_file" /\ op.file.kind = "json") =>
           LET tag == op.file.model_data.config.version
           IN  /\ from_string(tag) # <<>> <=> tag \in {"v3", "v7", "v11", "v13"}
               /\ from_string(tag) = <<>> => ret = Err("InvalidConfig")
               /\ from_string(tag) # <<>> =>
                      /\ tk.state = "ready"
                      /\ T.version = from_string(tag)[1]
                      /\ as_str(T.version) = tag

\* C24 witness: a file whose tag is a known one in upper case was refused
C24_Witness ==
    /\ op.name = "from_file"
    /\ op.file.kind = "json"
    /\ op.file.model_data.config.version = "V7"
    /\ ~ret.ok
----------------------------------------------------------------------------
(* Readers of one shared tokenizer. Every method of the read interface     *)
(* takes &self and the struct holds no cell, lock or atomic, so several    *)
(* threads may hold &Tekkenizer at once; a call is split into its start    *)
(* and its completion, and the calls of different readers interleave.      *)
(* Here tk holds the shared tokenizer and the one that was built; op and   *)
(* ret are indexed by reader.                                              *)

MaxReaders == 2

Readers == 1..MaxReaders

\* the tokenizer the readers share: the full byte table, an audio
\* configuration and the two audio tokens
SharedTokenizer ==
    TekkenizerNew(FullVocab,
                  <<SpecialTokenInfo(0, BeginAudioStr), SpecialTokenInfo(1, AudioStr)>>,
                  Len(FullVocab) + 2, 2, "V7", <<DefaultAudioConfig>>, "release").val

\* the calls a reader makes
ReaderCalls ==
    {[name |-> "encode", text |-> <<195, 169>>, add_bos |-> FALSE, add_eos |-> FALSE],
     [name |-> "encode", text |-> <<97>>, add_bos |-> TRUE, add_eos |-> FALSE],
     [name |-> "decode", tokens |-> <<197, 171>>, policy |-> "Ignore"],
     [name |-> "decode", tokens |-> <<0, 99>>, policy |-> "Raise"],
     [name |-> "decode_all", tokens |-> <<99, 1, 99>>, policy |-> "Keep"],
     [name |-> "id_to_piece", token_id |-> 99],
     [name |-> "id_to_byte_piece", token_id |-> 197, policy |-> "Keep"],
     [name |-> "get_control_token", token_str |-> AudioStr],
     [name |-> "get_control_token", token_str |-> BosStr],
     [name |-> "encode_audio", audio |-> Audio(<<1, 0, 1>>, 24000, "wav")]}

\* the result of call on tokenizer t
Apply(t, call) ==
    CASE call.name = "encode" -> encode(t, call.text, call.add_bos, call.add_eos)
      [] call.name = "decode" -> decode(t, call.tokens, call.policy)
      [] call.name = "decode_all" -> decode_all(t, call.tokens, call.policy)
      [] call.name = "id_to_piece" -> id_to_piece(t, call.token_id, "release")
      [] call.name = "id_to_byte_piece" ->
             id_to_byte_piece(t, call.token_id, call.policy, "release")
      [] call.name = "get_control_token" -> get_control_token(t, call.token_str)
      [] call.name = "encode_audio" -> encode_audio(t, call.audio)

\* a call that counts itself in the tokenizer it reads
Borrowed_Counting(t, call) == [t EXCEPT !.num_special_tokens = @ + 1]

\* the tokenizer after a call through &self: the call has no way to write it
Borrowed(t, call) == t

InitReaders ==
    /\ tk = [state |-> "shared", t |-> SharedTokenizer, built |-> SharedTokenizer]
    /\ op = [r \in Readers |-> [phase |-> "idle"]]
    /\ ret = [r \in Readers |-> Ok(<<>>)]

\* reader r enters a call
Call(r) ==
    /\ op[r].phase = "idle"
    /\ \E call \in ReaderCalls :
          op' = [op EXCEPT ![r] = [phase |-> "running", call |-> call]]
    /\ UNCHANGED <<tk, ret>>

\* the call of reader r reads the shared tokenizer and returns
Finish(r) ==
    /\ op[r].phase = "running"
    /\ ret' = [ret EXCEPT ![r] = Apply(tk.t, op[r].call)]
    /\ tk' = [tk EXCEPT !.t = Borrowed(tk.t, op[r].call)]
    /\ op' = [op EXCEPT ![r].phase = "returned"]

\* reader r drops its result
Drop(r) ==
    /\ op[r].phase = "returned"
    /\ op' = [op EXCEPT ![r] = [phase |-> "idle"]]
    /\ ret' = [ret EXCEPT ![r] = Ok(<<>>)]
    /\ UNCHANGED tk

NextReaders ==
    \/ \E r \in Readers : Call(r)
    \/ \E r \in Readers : Finish(r)
    \/ \E r \in Readers : Drop(r)

SpecReaders == InitReaders /\ [][NextReaders]_vars

----------------------------------------------------------------------------
(* Intended behaviour of byte pieces, construction, audio and decode       *)

\* C26 (as stated): for every id with is_byte(id) and id < vocab_size,
\* id_to_byte_piece(id, Keep) returns exactly the one byte
\* id - num_special_tokens, for the bytes 128..255 as well.
C26_RawBytePiece ==
    (/\ op.name = "id_to_byte_piece"
     /\ op.policy = "Keep"
     /\ is_byte(T, op.token_id)
     /\ op.token_id < T.vocab_size)
        => ret = Ok(<<op.token_id - T.num_special_tokens>>)

\* C27 (as stated): new with num_special_tokens > vocab_size returns a
\* configuration error, without underflow and without an instance; every
\* call to new ends in an error or in a tokenizer whose vocab() has
\* vocab_size entries.
C27_NewRejectsTooManySpecials ==
    op.name = "new" =>
        /\ op.num_special_tokens > op.vocab_size =>
               /\ ret = Err("InvalidConfig")
               /\ tk.state = "failed"
        /\ tk.state = "ready" => Len(T.vocab) = T.vocab_size

\* C28 (as stated): for every audio configuration AudioConfig::new accepts,
\* the samples-per-token value is at least 1 and, when a chunk length is
\* set, chunk_frames is at least 1, so that pad and encode never divide by
\* zero.
C28_AcceptedConfigDividesSafely ==
    tk.state = "encoder" =>
        /\ audio_length_per_tok(tk.encoder.config) >= 1
        /\ tk.encoder.config.chunk_length_s # <<>> =>
               chunk_frames(tk.encoder.config).val >= 1
        /\ op.name \in {"pad", "audio_encode"} => (ret.ok \/ ret.err # "panic")

\* the number of content tokens of an AudioEncoding
ContentTokens(encoding) == Len(encoding.tokens) - 1

\* C29: the two-branch rule for signal_length_in_hops gives
\* floor(L / hop_length) for every padded length L, so the number of
\* content tokens never decreases when the waveform gets longer.
C29_HopsAreFloor ==
    (op.name = "audio_encode" /\ ret.ok) =>
        LET hop_length == tk.encoder.config.audio_encoding_config.hop_length
            L == Len(ret.val.audio.audio_array)
        IN  /\ \A l \in 0..L :
                   (l = L \/ l <= 2 * MaxSamples) =>
                       SignalLengthInHops(l, hop_length) = l \div hop_length
            /\ \A shorter \in Waveforms :
                   LET r == AudioEncoder_encode(tk.encoder, shorter)
                   IN  (/\ shorter.sampling_rate = op.audio.sampling_rate
                        /\ Len(shorter.audio_array) <= Len(op.audio.audio_array)
                        /\ r.ok)
                           => ContentTokens(r.val) <= ContentTokens(ret.val)

\* C29 witness: a waveform whose padded length is not a multiple of the hop
\* length was encoded to at least one content token
C29_Witness ==
    /\ op.name = "audio_encode"
    /\ ret.ok
    /\ Len(ret.val.audio.audio_array)
           % tk.encoder.config.audio_encoding_config.hop_length # 0
    /\ ContentTokens(ret.val) >= 1

\* the ids of a sequence that are not special, in order
WithoutSpecial(t, ids) ==
    LET IsPlain(id) == id >= t.num_special_tokens
    IN  SelectSeq(ids, IsPlain)

\* C30 (as stated): decode(ids, Ignore) has the same outcome as
\* decode(ids', Ignore), ids' being ids with every special id removed, so a
\* special id between two ids whose bytes are valid UTF-8 only together
\* neither changes nor breaks the text.
C30_IgnoreEqualsFiltered ==
    (op.name = "decode" /\ op.policy = "Ignore") =>
        ret = decode(T, WithoutSpecial(T, op.tokens), "Ignore")

\* C30 (amended): decode(ids, Ignore) fails exactly when the engine rejects
\* some maximal run of non-special ids of ids; when it succeeds,
\* decode(ids', Ignore) succeeds with the same text, and when
\* decode(ids', Ignore) fails, decode(ids, Ignore) fails too.
C30_IgnoreAgreesWhenItSucceeds ==
    (op.name = "decode" /\ op.policy = "Ignore") =>
        LET filtered == decode(T, WithoutSpecial(T, op.tokens), "Ignore")
        IN  /\ ~ret.ok <=> SomeRunRejected(T, op.tokens)
            /\ ret.ok => filtered = ret
            /\ ~filtered.ok => ~ret.ok

\* C30 witness: a special id between two non-special ids was dropped from
\* the decoded text
C30_Witness ==
    /\ op.name = "decode"
    /\ op.policy = "Ignore"
    /\ Len(op.tokens) = 3
    /\ op.tokens[1] >= T.num_special_tokens
    /\ op.tokens[2] < T.num_special_tokens
    /\ op.tokens[3] >= T.num_special_tokens
    /\ ret.ok
    /\ Len(ret.val) >= 2
====
